---- MODULE Spec2Model ----
(***************************************************************************)
(* State-machine model of LogoGen.py: the geometry synthesizer             *)
(* (bitmap_to_stacked_logo), the macro descriptor emitter                  *)
(* (generate_lef_from_logo), the orchestrator (generate_logo_files) and    *)
(* the command surface (__main__).                                         *)
(*                                                                         *)
(* Lengths.  Every length is an integer number of grid steps, GridPerUnit  *)
(* steps to one physical length unit (1.0 um).  The synthesizer computes   *)
(* in binary floating point; the model keeps the format (binary            *)
(* significand, round to nearest, ties to even) with a significand of      *)
(* Precision bits instead of the 53 of an IEEE double, because TLC's       *)
(* integers are 32 bits wide.  Pixel sizes and metal rules are drawn from  *)
(* values on which all pixel-level arithmetic is exact at that width; the  *)
(* via arithmetic does round for some via rules, as it does in double.     *)
(***************************************************************************)
EXTENDS Integers, Sequences, FiniteSets, TLC

VARIABLES
    entry,              \* which function the run entered through
    pc,                 \* position in the program
    image_exists,       \* os.path.exists(InputImage)
    constraints_exist,  \* os.path.exists(ConstraintFile)
    dir_exists,         \* os.path.exists(OutputDir)
    dir_created,        \* os.mkdir(OutputDir) was executed by this run
    files,              \* names of the files this run wrote into OutputDir
    macro_arg,          \* --macro_name / macro_name argument
    units,              \* units argument of generate_lef_from_logo
    metal_layers,       \* specs of the "metalN" keys, sorted by N
    via_layers,         \* specs of the "viaN" keys, sorted by N
    DMxEXCL_layer_info, \* specs of the "DM<N>EXCL" keys, sorted by N
    pixel_size_um,      \* pixel size, in grid steps
    width, height,      \* image.size
    pixels,             \* pixels[y][x], 0 = foreground
    max_min_width,      \* largest min_width among the metals passing the gate
    y, x,               \* loop indices of the pass in progress (0-based)
    cell,               \* the rectangle collection, in emission order
    lef                 \* the macro description written, or NoLef

vars == <<entry, pc, image_exists, constraints_exist, dir_exists, dir_created,
          files, macro_arg, units, metal_layers, via_layers,
          DMxEXCL_layer_info, pixel_size_um, width, height, pixels,
          max_min_width, y, x, cell, lef>>

----------------------------------------------------------------------------
(* Bounds of the model *)

MaxWidth == 2
MaxMetals == 2
Precision == 4

(* Scale of the grid: 2^8 steps to 1.0 um, so that 0.5 um, 1.5 um and the  *)
(* halves taken by the code are whole numbers of steps.                    *)
GridPerUnit == 2 ^ 8

(* A key that the constraint file does not give *)
Absent == -1

----------------------------------------------------------------------------
(* Floating point *)

RECURSIVE BitLength(_)
BitLength(n) == IF n = 0 THEN 0 ELSE 1 + BitLength(n \div 2)

(* n >= 0 rounded to Precision significant bits, ties to even *)
RoundMag(n) ==
    IF n < 2 ^ Precision THEN n
    ELSE LET e == BitLength(n) - Precision
             q == n \div (2 ^ e)
             r == n % (2 ^ e)
             half == 2 ^ (e - 1)
         IN  IF r > half \/ (r = half /\ q % 2 = 1)
             THEN (q + 1) * (2 ^ e)
             ELSE q * (2 ^ e)

Round(n) == IF n < 0 THEN 0 - RoundMag(0 - n) ELSE RoundMag(n)

FAdd(a, b) == Round(a + b)
FSub(a, b) == Round(a - b)
FMul(a, b) == Round(a * b)
(* a / 2.0: exact, every value of the model is an even number of steps *)
FHalf(a) == a \div 2
(* a * a for two lengths, in grid steps squared *)
FSquare(a) == Round(a * a)
(* int(a // b) for a >= 0, b > 0: the floor of the exact quotient *)
FFloorDiv(a, b) == a \div b

----------------------------------------------------------------------------
(* Constraint model *)

(* spec.get(key, default) *)
Get(spec, key, default) == IF spec[key] = Absent THEN default ELSE spec[key]

(* 0.1 um, the default via width and height, at Precision bits: 13 / 2^7 um *)
DefaultViaSize == 13 * (2 ^ 1)

(* constraints.get("logo", {"layer": 100, "datatype": 0}), no "logo" key given *)
logo_layer_info == [layer |-> 100, datatype |-> 0]

(* pixel_size_um < min_width or pixel_size_um**2 < min_area: the layer is skipped *)
GatedOut(spec) ==
    \/ pixel_size_um < Get(spec, "min_width", 0)
    \/ FSquare(pixel_size_um) < Get(spec, "min_area", 0)

(* The loop computing max_min_width over metal_layers[i..], from acc *)
RECURSIVE MaxMinWidthFrom(_, _)
MaxMinWidthFrom(i, acc) ==
    IF i > Len(metal_layers) THEN acc
    ELSE LET spec == metal_layers[i]
             min_width == Get(spec, "min_width", 0)
         IN  IF GatedOut(spec) THEN MaxMinWidthFrom(i + 1, acc)
             ELSE IF min_width > acc THEN MaxMinWidthFrom(i + 1, min_width)
             ELSE MaxMinWidthFrom(i + 1, acc)

----------------------------------------------------------------------------
(* Rectangles.  role, px, py and ord are ghost fields: the pass that      *)
(* emitted the rectangle, the pixel (or 2x2 window) it was emitted for and *)
(* the ordinal of the metal layer whose iteration emitted it.             *)

Rect(role, spec, x0, y0, x1, y1, px, py, ord) ==
    [role |-> role, layer |-> spec.layer, datatype |-> spec.datatype,
     x0 |-> x0, y0 |-> y0, x1 |-> x1, y1 |-> y1, px |-> px, py |-> py,
     ord |-> ord]

RECURSIVE Concat(_, _, _)
(* f[lo] \o f[lo+1] \o ... \o f[hi] *)
Concat(f, lo, hi) == IF lo > hi THEN <<>> ELSE f[lo] \o Concat(f, lo + 1, hi)

----------------------------------------------------------------------------
(* Pass A: diagonal corner fill *)

(* pixels[yy, xx]; rows and columns are 0-based as in the source *)
Pixel(yy, xx) == pixels[yy + 1][xx + 1]

(* Pattern 1: block[0,0] and block[1,1] foreground, the other two not *)
Pattern1(yy, xx) ==
    /\ Pixel(yy, xx) = 0 /\ Pixel(yy + 1, xx + 1) = 0
    /\ Pixel(yy, xx + 1) # 0 /\ Pixel(yy + 1, xx) # 0

(* Pattern 2 without the test that the other diagonal is background *)
Pattern2_NoBackgroundTest(yy, xx) ==
    Pixel(yy, xx + 1) = 0 /\ Pixel(yy + 1, xx) = 0

(* Pattern 2: block[0,1] and block[1,0] foreground, the other two not *)
Pattern2(yy, xx) ==
    /\ Pixel(yy, xx + 1) = 0 /\ Pixel(yy + 1, xx) = 0
    /\ Pixel(yy, xx) # 0 /\ Pixel(yy + 1, xx + 1) # 0

(* max_min_width > pixel_size_um or max_min_width**2 < min_area: skipped *)
DiagSkipped(spec) ==
    \/ max_min_width > pixel_size_um
    \/ FSquare(max_min_width) < Get(spec, "min_area", 0)

(* The square added for metal m of the window at (yy, xx), if any *)
DiagSquare(yy, xx, m) ==
    LET spec == metal_layers[m]
        center_x == FMul(xx + 1, pixel_size_um)
        center_y == FMul(height - (yy + 1), pixel_size_um)
        half == FHalf(max_min_width)
    IN  IF DiagSkipped(spec) THEN <<>>
        ELSE << Rect("diag", spec, FSub(center_x, half), FSub(center_y, half),
                     FAdd(center_x, half), FAdd(center_y, half), xx, yy, m) >>

(* Everything one iteration of the window loop adds to the cell *)
WindowRects(yy, xx) ==
    IF Pattern1(yy, xx) \/ Pattern2(yy, xx)
    THEN Concat([m \in 1..Len(metal_layers) |-> DiagSquare(yy, xx, m)],
                1, Len(metal_layers))
    ELSE <<>>

----------------------------------------------------------------------------
(* Pass B: per-pixel fill and via arrays *)

(* py0 without the Y flip *)
PixelY0_NoFlip(yy) == FMul(yy, pixel_size_um)

PixelX0(xx) == FMul(xx, pixel_size_um)
PixelY0(yy) == FMul(height - 1 - yy, pixel_size_um)

via_w(via_spec) == Get(via_spec, "width", DefaultViaSize)
via_h(via_spec) == Get(via_spec, "height", DefaultViaSize)
via_spacing(via_spec) == Get(via_spec, "spacing", via_w(via_spec))
total_via_w(via_spec) == FAdd(via_w(via_spec), via_spacing(via_spec))
total_via_h(via_spec) == FAdd(via_h(via_spec), via_spacing(via_spec))

(* pixel_size_um // total raises ZeroDivisionError when the pitch is 0.0 *)
ZeroPitch(via_spec) == total_via_w(via_spec) = 0 \/ total_via_h(via_spec) = 0

(* the via loop without its boundary test *)
ViaFits_NoTest(vx1, vy1, px1, py1) == TRUE

(* if vx0 + via_w <= px1 and vy0 + via_h <= py1 *)
ViaFits(vx1, vy1, px1, py1) == vx1 <= px1 /\ vy1 <= py1

(* The via array of metal ordinal m in the pixel box (px0, py0)-(px1, py1) *)
ViaRects(xx, yy, m, px0, py0, px1, py1) ==
    LET via_spec == via_layers[m]
        vw == via_w(via_spec)
        vh == via_h(via_spec)
        vs == via_spacing(via_spec)
        tw == total_via_w(via_spec)
        th == total_via_h(via_spec)
        num_x == FFloorDiv(pixel_size_um, tw)
        num_y == FFloorDiv(pixel_size_um, th)
        arr_w == IF num_x > 0 THEN FSub(FMul(num_x, tw), vs) ELSE 0
        arr_h == IF num_y > 0 THEN FSub(FMul(num_y, th), vs) ELSE 0
        arr_x0 == FAdd(px0, FHalf(FSub(pixel_size_um, arr_w)))
        arr_y0 == FAdd(py0, FHalf(FSub(pixel_size_um, arr_h)))
        via(k) ==
            LET i == k \div num_y
                j == k % num_y
                vx0 == FAdd(arr_x0, FMul(i, tw))
                vy0 == FAdd(arr_y0, FMul(j, th))
            IN  IF ViaFits(FAdd(vx0, vw), FAdd(vy0, vh), px1, py1)
                THEN << Rect("via", via_spec, vx0, vy0, FAdd(vx0, vw),
                             FAdd(vy0, vh), xx, yy, m) >>
                ELSE <<>>
    IN  IF num_x * num_y = 0 THEN <<>>
        ELSE Concat([k \in 0..(num_x * num_y - 1) |-> via(k)],
                    0, num_x * num_y - 1)

(* The metal iteration m of the pixel raises ZeroDivisionError *)
MetalRaises(m) ==
    /\ ~GatedOut(metal_layers[m])
    /\ m <= Len(via_layers)
    /\ ZeroPitch(via_layers[m])

(* What the metal iteration m adds for the pixel at (xx, yy) *)
MetalRects(xx, yy, m) ==
    LET spec == metal_layers[m]
        px0 == PixelX0(xx)
        py0 == PixelY0(yy)
        px1 == FAdd(px0, pixel_size_um)
        py1 == FAdd(py0, pixel_size_um)
        fill == << Rect("fill", spec, px0, py0, px1, py1, xx, yy, m) >>
    IN  IF GatedOut(spec) THEN <<>>
        ELSE IF m <= Len(via_layers) /\ ~ZeroPitch(via_layers[m])
        THEN fill \o ViaRects(xx, yy, m, px0, py0, px1, py1)
        ELSE fill

(* The first metal ordinal whose iteration raises, or 0 *)
RaisingMetal ==
    IF \E m \in 1..Len(metal_layers) : MetalRaises(m)
    THEN CHOOSE m \in 1..Len(metal_layers) :
            MetalRaises(m) /\ \A k \in 1..(m - 1) : ~MetalRaises(k)
    ELSE 0

(* Everything one iteration of the pixel loop adds, up to a raise *)
PixelRects(yy, xx) ==
    IF Pixel(yy, xx) # 0 THEN <<>>
    ELSE LET last == IF RaisingMetal = 0 THEN Len(metal_layers)
                     ELSE RaisingMetal
         IN  Concat([m \in 1..Len(metal_layers) |-> MetalRects(xx, yy, m)],
                    1, last)

----------------------------------------------------------------------------
(* Passes C and D *)

(* Pass C: the logo outline (0, 0)-(width * ps, height * ps) *)
LogoRect ==
    Rect("outline", logo_layer_info, 0, 0, FMul(width, pixel_size_um),
         FMul(height, pixel_size_um), 0, 0, 0)

(* Pass D: one full-extent rectangle per exclusion layer passing the gate *)
ExclRect(e) ==
    LET spec == DMxEXCL_layer_info[e]
    IN  IF GatedOut(spec) THEN <<>>
        ELSE << Rect("excl", spec, 0, 0, FMul(width, pixel_size_um),
                     FMul(height, pixel_size_um), 0, 0, e) >>

ExclRects ==
    Concat([e \in 1..Len(DMxEXCL_layer_info) |-> ExclRect(e)],
           1, Len(DMxEXCL_layer_info))

----------------------------------------------------------------------------
(* Macro descriptor emitter *)

NoLef == [macro |-> "", foreign |-> "", endname |-> "", size_w |-> 0,
          size_h |-> 0]

(* units=1000, the default of generate_lef_from_logo *)
DefaultUnits == 1000

(* the divisor written in the SIZE line *)
SizeDivisor == 1000

(* f"{num/den:.0f}" for num >= 0, den > 0: the nearest integer, ties to even *)
FormatF0(num, den) ==
    LET q == num \div den
        r == num % den
    IN  IF 2 * r > den \/ (2 * r = den /\ q % 2 = 1) THEN q + 1 ELSE q

(* width_lef, in grid steps times units *)
width_lef(u) == width * pixel_size_um * u
height_lef(u) == height * pixel_size_um * u

(* The file generate_lef_from_logo writes for macro_name and units u *)
LefContent(macro_name, u) ==
    [macro |-> macro_name, foreign |-> macro_name, endname |-> macro_name,
     size_w |-> FormatF0(width_lef(u), SizeDivisor * GridPerUnit),
     size_h |-> FormatF0(height_lef(u), SizeDivisor * GridPerUnit)]

----------------------------------------------------------------------------
(* Command surface *)

Omitted == "<omitted>"

(* argparse: --macro_name, default "LOGO_CELL" *)
args_macro_name == IF macro_arg = Omitted THEN "LOGO_CELL" ELSE macro_arg

(* the macro_name that __main__ passes to generate_logo_files *)
MainMacroName == "LOGO_CELL"

(* the macro_name generate_lef_from_logo receives *)
LefMacroName == IF entry = "main" THEN MainMacroName ELSE args_macro_name

(* the units generate_lef_from_logo receives: generate_logo_files passes none *)
LefUnits == IF entry = "main" THEN DefaultUnits ELSE units

OutputGds == "logo.gds"
OutputLef == "logo.lef"

----------------------------------------------------------------------------
(* Inputs *)

(* one row (no 2x2 window, no Y flip to see) and two rows *)
Heights == 1..2
PixelSizes == {GridPerUnit, 3 * (GridPerUnit \div 2)}

MetalSpec(i, rule) ==
    [layer |-> 2 * i - 1, datatype |-> 0, min_width |-> rule[1],
     min_area |-> rule[2]]

ViaSpec(i, rule) ==
    [layer |-> 2 * i, datatype |-> 0, width |-> rule[1], height |-> rule[2],
     spacing |-> rule[3]]

ExclSpec(i, rule) ==
    [layer |-> 80 + i, datatype |-> 0, min_width |-> rule[1],
     min_area |-> rule[2]]

(* <<min_width, min_area>>: none given; 0.5 um and 0.5 um^2; 1.5 um *)
MetalRules ==
    { <<Absent, Absent>>,
      <<GridPerUnit \div 2, 2 ^ 15>>,
      <<3 * (GridPerUnit \div 2), Absent>> }

(* <<width, height, spacing>> *)
ViaRuleA == <<GridPerUnit \div 2, GridPerUnit \div 4, Absent>>
ViaRuleB == <<36, 240, 16>>
ViaRuleZ == <<0, 0, Absent>>

ViaRuleStacks == { <<>>, <<ViaRuleB, ViaRuleA>>, <<ViaRuleA, ViaRuleZ>> }

ExclRules == << <<3 * (GridPerUnit \div 2), Absent>>, <<Absent, Absent>> >>

Grids(w, h) == [1..h -> [1..w -> {0, 1}]]

MacroArgs == {Omitted, "MY_LOGO"}
UnitChoices == {500, 1000, 2000}

----------------------------------------------------------------------------
(* Initial states: one per entry point and input *)

InputsOK(w, h, g, ps, ms, vs) ==
    /\ width = w /\ height = h /\ pixels = g
    /\ pixel_size_um = ps
    /\ metal_layers = [i \in 1..Len(ms) |-> MetalSpec(i, ms[i])]
    /\ via_layers = [i \in 1..Len(vs) |-> ViaSpec(i, vs[i])]
    /\ DMxEXCL_layer_info = [i \in 1..Len(ExclRules) |-> ExclSpec(i, ExclRules[i])]
    /\ max_min_width = 0 /\ y = 0 /\ x = 0
    /\ cell = <<>> /\ lef = NoLef
    /\ files = {} /\ dir_created = FALSE

(* bitmap_to_stacked_logo called on existing inputs *)
InitGds ==
    \E w \in 1..MaxWidth, h \in Heights, ps \in PixelSizes,
       n \in 0..MaxMetals, vs \in ViaRuleStacks :
      \E g \in Grids(w, h), ms \in [1..n -> MetalRules] :
        /\ InputsOK(w, h, g, ps, ms, vs)
        /\ entry = "gds" /\ pc = "setup"
        /\ image_exists = TRUE /\ constraints_exist = TRUE
        /\ dir_exists = TRUE
        /\ macro_arg = Omitted /\ units = DefaultUnits

(* generate_lef_from_logo called on existing inputs *)
InitLef ==
    \E w \in 1..MaxWidth, h \in Heights, ps \in PixelSizes,
       u \in UnitChoices, name \in MacroArgs :
        /\ InputsOK(w, h, [r \in 1..h |-> [c \in 1..w |-> 1]], ps, <<>>, <<>>)
        /\ entry = "lef" /\ pc = "lef"
        /\ image_exists = TRUE /\ constraints_exist = TRUE
        /\ dir_exists = TRUE
        /\ macro_arg = name /\ units = u

(* the tool run from the command line *)
InitMain ==
    \E w \in 1..MaxWidth, ps \in PixelSizes, name \in MacroArgs,
       ie \in BOOLEAN, ce \in BOOLEAN, de \in BOOLEAN,
       ms \in [1..1 -> MetalRules], vs \in ViaRuleStacks :
        /\ InputsOK(w, 1, [r \in 1..1 |-> [c \in 1..w |-> 0]], ps, ms, vs)
        /\ entry = "main" /\ pc = "check_image"
        /\ image_exists = ie /\ constraints_exist = ce /\ dir_exists = de
        /\ macro_arg = name /\ units = DefaultUnits

Init == InitGds \/ InitLef \/ InitMain

----------------------------------------------------------------------------
(* __main__ *)

synth == <<metal_layers, via_layers, DMxEXCL_layer_info, pixel_size_um,
           width, height, pixels>>
args == <<entry, macro_arg, units, image_exists, constraints_exist>>

(* if not os.path.exists(InputImage): raise FileNotFoundError *)
MainCheckImage ==
    /\ pc = "check_image"
    /\ pc' = IF image_exists THEN "check_constraints" ELSE "FileNotFoundError"
    /\ UNCHANGED <<args, synth, dir_exists, dir_created, files,
                   max_min_width, y, x, cell, lef>>

(* the constraint check skipped: the run goes on to os.mkdir *)
MainCheckConstraints_NoRaise ==
    /\ pc = "check_constraints"
    /\ pc' = "mkdir"
    /\ UNCHANGED <<args, synth, dir_exists, dir_created, files,
                   max_min_width, y, x, cell, lef>>

(* if not os.path.exists(ConstraintFile): raise FileNotFoundError *)
MainCheckConstraints ==
    /\ pc = "check_constraints"
    /\ pc' = IF constraints_exist THEN "mkdir" ELSE "FileNotFoundError"
    /\ UNCHANGED <<args, synth, dir_exists, dir_created, files,
                   max_min_width, y, x, cell, lef>>

(* if not os.path.exists(OutputDir): os.mkdir(OutputDir) *)
MainMkdir ==
    /\ pc = "mkdir"
    /\ dir_exists' = TRUE
    /\ dir_created' = ~dir_exists
    /\ pc' = "setup"
    /\ UNCHANGED <<args, synth, files, max_min_width, y, x, cell, lef>>

----------------------------------------------------------------------------
(* bitmap_to_stacked_logo *)

(* parse, threshold, and the max_min_width loop; then the first pass that *)
(* has an iteration                                                       *)
Setup ==
    /\ pc = "setup"
    /\ max_min_width' = MaxMinWidthFrom(1, 0)
    /\ pc' = IF height - 1 > 0 /\ width - 1 > 0 THEN "scan" ELSE "fill"
    /\ y' = 0 /\ x' = 0
    /\ UNCHANGED <<args, synth, dir_exists, dir_created, files, cell, lef>>

(* one iteration of: for y in range(height-1): for x in range(width-1) *)
ScanWindow ==
    /\ pc = "scan"
    /\ cell' = cell \o WindowRects(y, x)
    /\ IF x + 1 < width - 1
       THEN x' = x + 1 /\ y' = y /\ pc' = pc
       ELSE IF y + 1 < height - 1
       THEN x' = 0 /\ y' = y + 1 /\ pc' = pc
       ELSE x' = 0 /\ y' = 0 /\ pc' = "fill"
    /\ UNCHANGED <<args, synth, dir_exists, dir_created, files,
                   max_min_width, lef>>

(* the pixel at (y, x) makes a metal iteration raise ZeroDivisionError *)
PixelRaises == Pixel(y, x) = 0 /\ RaisingMetal # 0

(* one iteration of: for y in range(height): for x in range(width) *)
FillPixel ==
    /\ pc = "fill"
    /\ ~PixelRaises
    /\ cell' = cell \o PixelRects(y, x)
    /\ IF x + 1 < width
       THEN x' = x + 1 /\ y' = y /\ pc' = pc
       ELSE IF y + 1 < height
       THEN x' = 0 /\ y' = y + 1 /\ pc' = pc
       ELSE x' = 0 /\ y' = 0 /\ pc' = "outline"
    /\ UNCHANGED <<args, synth, dir_exists, dir_created, files,
                   max_min_width, lef>>

(* the same iteration when pixel_size_um // 0.0 raises: the run ends *)
FillPixelRaises ==
    /\ pc = "fill"
    /\ PixelRaises
    /\ cell' = cell \o PixelRects(y, x)
    /\ pc' = "ZeroDivisionError"
    /\ UNCHANGED <<args, synth, dir_exists, dir_created, files,
                   max_min_width, y, x, lef>>

(* Pass C *)
Outline ==
    /\ pc = "outline"
    /\ cell' = Append(cell, LogoRect)
    /\ pc' = "excl"
    /\ UNCHANGED <<args, synth, dir_exists, dir_created, files,
                   max_min_width, y, x, lef>>

(* Pass D *)
Exclusion ==
    /\ pc = "excl"
    /\ cell' = cell \o ExclRects
    /\ pc' = "write_gds"
    /\ UNCHANGED <<args, synth, dir_exists, dir_created, files,
                   max_min_width, y, x, lef>>

(* lib.write_gds(output_gds); generate_logo_files then goes on to the LEF *)
WriteGds ==
    /\ pc = "write_gds"
    /\ files' = files \cup {OutputGds}
    /\ pc' = IF entry = "main" THEN "lef" ELSE "done"
    /\ UNCHANGED <<args, synth, dir_exists, dir_created, max_min_width, y, x,
                   cell, lef>>

----------------------------------------------------------------------------
(* generate_lef_from_logo *)

WriteLef ==
    /\ pc = "lef"
    /\ lef' = LefContent(LefMacroName, LefUnits)
    /\ files' = files \cup {OutputLef}
    /\ pc' = "done"
    /\ UNCHANGED <<args, synth, dir_exists, dir_created, max_min_width, y, x,
                   cell>>

----------------------------------------------------------------------------

Next ==
    \/ MainCheckImage
    \/ MainCheckConstraints
    \/ MainMkdir
    \/ Setup
    \/ ScanWindow
    \/ FillPixel
    \/ FillPixelRaises
    \/ Outline
    \/ Exclusion
    \/ WriteGds
    \/ WriteLef

Spec == Init /\ [][Next]_vars

----------------------------------------------------------------------------
(* Vocabulary of the properties.  The properties state lengths and areas   *)
(* in plain integer arithmetic on grid steps, not through the operators of *)
(* the model.                                                              *)

PassADone == pc \in {"fill", "outline", "excl", "write_gds", "done",
                     "ZeroDivisionError"}
PassBDone == pc \in {"outline", "excl", "write_gds", "done"}
    \/ (entry = "main" /\ pc = "lef")

Rects(P(_)) == {i \in DOMAIN cell : P(cell[i])}

MinWidthOf(spec) == IF spec.min_width = Absent THEN 0 ELSE spec.min_width
MinAreaOf(spec) == IF spec.min_area = Absent THEN 0 ELSE spec.min_area

(* pixel_size >= min_width and pixel_size^2 >= min_area *)
PassesGate(spec) ==
    /\ pixel_size_um >= MinWidthOf(spec)
    /\ pixel_size_um * pixel_size_um >= MinAreaOf(spec)

Foreground(yy, xx) == pixels[yy + 1][xx + 1] = 0

OnLayer(r, spec) == r.layer = spec.layer /\ r.datatype = spec.datatype

(* r is the box (bx0, by0)-(bx1, by1) *)
IsBox(r, bx0, by0, bx1, by1) ==
    r.x0 = bx0 /\ r.y0 = by0 /\ r.x1 = bx1 /\ r.y1 = by1

(* r lies within the box (bx0, by0)-(bx1, by1) *)
Within(r, bx0, by0, bx1, by1) ==
    /\ bx0 <= r.x0 /\ r.x0 <= r.x1 /\ r.x1 <= bx1
    /\ by0 <= r.y0 /\ r.y0 <= r.y1 /\ r.y1 <= by1

(* the Y-flipped box of the pixel at column xx, row yy *)
InPixelBox(r, xx, yy) ==
    Within(r, xx * pixel_size_um, (height - 1 - yy) * pixel_size_um,
           (xx + 1) * pixel_size_um, (height - yy) * pixel_size_um)

----------------------------------------------------------------------------
(* C1: once Pass B is complete, each metal layer L holds exactly one fill  *)
(* rectangle per foreground pixel if L passes its gate and none otherwise; *)
(* the rectangle of pixel (x, y) is the Y-flipped box                      *)
(* (x*ps, (H-1-y)*ps)-((x+1)*ps, (H-y)*ps), of area ps*ps; no other fill   *)
(* rectangle exists.                                                       *)
C1_FillOnePerForegroundPixel ==
    PassBDone =>
      /\ \A m \in DOMAIN metal_layers, yy \in 0..(height - 1),
            xx \in 0..(width - 1) :
           Cardinality(Rects(LAMBDA r :
               /\ r.role = "fill" /\ OnLayer(r, metal_layers[m])
               /\ IsBox(r, xx * pixel_size_um,
                        (height - 1 - yy) * pixel_size_um,
                        (xx + 1) * pixel_size_um,
                        (height - yy) * pixel_size_um)))
           = IF Foreground(yy, xx) /\ PassesGate(metal_layers[m])
             THEN 1 ELSE 0
      /\ \A i \in DOMAIN cell :
           cell[i].role = "fill" =>
             /\ (cell[i].x1 - cell[i].x0) * (cell[i].y1 - cell[i].y0)
                  = pixel_size_um * pixel_size_um
             /\ \E m \in DOMAIN metal_layers, yy \in 0..(height - 1),
                   xx \in 0..(width - 1) :
                  /\ Foreground(yy, xx) /\ PassesGate(metal_layers[m])
                  /\ OnLayer(cell[i], metal_layers[m])
                  /\ IsBox(cell[i], xx * pixel_size_um,
                           (height - 1 - yy) * pixel_size_um,
                           (xx + 1) * pixel_size_um,
                           (height - yy) * pixel_size_um)

(* Pass B complete on a grid of two rows with a foreground pixel in the    *)
(* top row, one metal layer passing the gate and one failing it            *)
C1_Witness ==
    /\ PassBDone /\ entry = "gds" /\ height = 2
    /\ \E xx \in 0..(width - 1) : Foreground(0, xx)
    /\ \E m \in DOMAIN metal_layers : PassesGate(metal_layers[m])
    /\ \E m \in DOMAIN metal_layers : ~PassesGate(metal_layers[m])
    /\ \E i \in DOMAIN cell : cell[i].role = "fill"

----------------------------------------------------------------------------
(* C2: every rectangle on a metal layer L (diagonal square or fill) has    *)
(* both sides >= L.min_width and area >= L.min_area.                       *)
C2_MetalRulesRespected ==
    \A i \in DOMAIN cell, m \in DOMAIN metal_layers :
        (cell[i].role \in {"diag", "fill"} /\ OnLayer(cell[i], metal_layers[m]))
        => /\ cell[i].x1 - cell[i].x0 >= MinWidthOf(metal_layers[m])
           /\ cell[i].y1 - cell[i].y0 >= MinWidthOf(metal_layers[m])
           /\ (cell[i].x1 - cell[i].x0) * (cell[i].y1 - cell[i].y0)
                >= MinAreaOf(metal_layers[m])

----------------------------------------------------------------------------
(* C3: once Pass A is complete, the number of diagonal-fill squares        *)
(* centred on the shared corner ((x+1)*ps, (H-(y+1))*ps) of the window at  *)
(* (y, x) on metal layer L is 1 if the window is exactly one of the two    *)
(* diagonal patterns and L qualifies, and 0 otherwise; every diagonal-fill *)
(* square belongs to such a window, so a grid with W <= 1 or H <= 1 has    *)
(* none.                                                                   *)
DiagonalWindow(yy, xx) ==
    \/ /\ Foreground(yy, xx) /\ Foreground(yy + 1, xx + 1)
       /\ ~Foreground(yy, xx + 1) /\ ~Foreground(yy + 1, xx)
    \/ /\ Foreground(yy, xx + 1) /\ Foreground(yy + 1, xx)
       /\ ~Foreground(yy, xx) /\ ~Foreground(yy + 1, xx + 1)

(* the largest min_width among the metal layers passing the gate, or 0 *)
LargestQualifyingMinWidth ==
    LET ws == {0} \cup {MinWidthOf(metal_layers[m]) :
                          m \in {k \in DOMAIN metal_layers :
                                   PassesGate(metal_layers[k])}}
    IN  CHOOSE w \in ws : \A v \in ws : v <= w

QualifiesForDiagonal(spec) ==
    /\ LargestQualifyingMinWidth <= pixel_size_um
    /\ LargestQualifyingMinWidth * LargestQualifyingMinWidth >= MinAreaOf(spec)

CentredOn(r, cx, cy) == r.x0 + r.x1 = 2 * cx /\ r.y0 + r.y1 = 2 * cy

C3_DiagonalOnlyOnExactPatterns ==
    (PassADone \/ PassBDone) =>
      /\ \A m \in DOMAIN metal_layers, yy \in 0..(height - 2),
            xx \in 0..(width - 2) :
           Cardinality(Rects(LAMBDA r :
               /\ r.role = "diag" /\ OnLayer(r, metal_layers[m])
               /\ CentredOn(r, (xx + 1) * pixel_size_um,
                            (height - (yy + 1)) * pixel_size_um)))
           = IF DiagonalWindow(yy, xx) /\ QualifiesForDiagonal(metal_layers[m])
             THEN 1 ELSE 0
      /\ \A i \in DOMAIN cell :
           cell[i].role = "diag" =>
             \E yy \in 0..(height - 2), xx \in 0..(width - 2) :
                /\ DiagonalWindow(yy, xx)
                /\ CentredOn(cell[i], (xx + 1) * pixel_size_um,
                             (height - (yy + 1)) * pixel_size_um)

(* Pass A complete on a grid with a diagonal window, with one metal layer  *)
(* that got its square and one that did not qualify                        *)
C3_Witness ==
    /\ PassADone /\ width >= 2 /\ height >= 2
    /\ \E yy \in 0..(height - 2), xx \in 0..(width - 2) : DiagonalWindow(yy, xx)
    /\ \E m \in DOMAIN metal_layers : QualifiesForDiagonal(metal_layers[m])
    /\ \E m \in DOMAIN metal_layers : ~QualifiesForDiagonal(metal_layers[m])
    /\ \E i \in DOMAIN cell : cell[i].role = "diag" /\ cell[i].x1 > cell[i].x0

----------------------------------------------------------------------------
(* C4: once Pass B is complete, for every foreground pixel and every metal *)
(* ordinal m that passes its gate and has a via layer at ordinal m with    *)
(* width W > 0, height H > 0 and spacing S >= 0, the number of via         *)
(* rectangles emitted in that pixel on that via layer is                   *)
(* floor(ps/(W+S)) * floor(ps/(H+S)): the boundary test drops none.        *)
ViaWidthOf(v) == IF v.width = Absent THEN DefaultViaSize ELSE v.width
ViaHeightOf(v) == IF v.height = Absent THEN DefaultViaSize ELSE v.height
ViaSpacingOf(v) == IF v.spacing = Absent THEN ViaWidthOf(v) ELSE v.spacing

C4_ViaCountIsFloorProduct ==
    PassBDone =>
      \A m \in DOMAIN metal_layers, yy \in 0..(height - 1),
         xx \in 0..(width - 1) :
        ( /\ Foreground(yy, xx) /\ PassesGate(metal_layers[m])
          /\ m \in DOMAIN via_layers
          /\ ViaWidthOf(via_layers[m]) > 0 /\ ViaHeightOf(via_layers[m]) > 0
          /\ ViaSpacingOf(via_layers[m]) >= 0 )
        => Cardinality(Rects(LAMBDA r :
               /\ r.role = "via" /\ OnLayer(r, via_layers[m])
               /\ r.px = xx /\ r.py = yy))
           = (pixel_size_um \div
                (ViaWidthOf(via_layers[m]) + ViaSpacingOf(via_layers[m])))
             * (pixel_size_um \div
                (ViaHeightOf(via_layers[m]) + ViaSpacingOf(via_layers[m])))

----------------------------------------------------------------------------
(* C5: the SIZE written in the macro block is width*pixel_size BY          *)
(* height*pixel_size (in length units), whatever the unit scale.           *)
C5_LefSizeIsGridExtent ==
    lef # NoLef =>
      /\ lef.size_w * GridPerUnit = width * pixel_size_um
      /\ lef.size_h * GridPerUnit = height * pixel_size_um

----------------------------------------------------------------------------
(* C6: a run of the tool whose image or constraint path does not exist     *)
(* ends in the not-found error with the output directory not created, no   *)
(* file written and the synthesizer never entered; a run that ends         *)
(* normally had both inputs, finds the output directory in place and has   *)
(* written exactly logo.gds and logo.lef.                                  *)
C6_NotFoundBeforeAnyProcessing ==
    entry = "main" =>
      /\ (~image_exists \/ ~constraints_exist) =>
           /\ pc \in {"check_image", "check_constraints", "FileNotFoundError"}
           /\ ~dir_created /\ files = {} /\ cell = <<>> /\ lef = NoLef
      /\ pc = "FileNotFoundError" => (~image_exists \/ ~constraints_exist)
      /\ dir_created => (image_exists /\ constraints_exist)
      /\ pc \notin {"check_image", "check_constraints", "mkdir",
                    "FileNotFoundError"} => dir_exists
      /\ pc = "done" =>
           /\ image_exists /\ constraints_exist
           /\ files = {"logo.gds", "logo.lef"}
      /\ files \subseteq {"logo.gds", "logo.lef"}

(* the run stopped on the missing constraint file, the image being there   *)
(* and the output directory missing                                        *)
C6_Witness ==
    /\ entry = "main" /\ pc = "FileNotFoundError"
    /\ image_exists /\ ~constraints_exist /\ ~dir_exists

----------------------------------------------------------------------------
(* C7: after a run of the tool, the MACRO, FOREIGN and END lines carry the *)
(* macro name given on the command line, LOGO_CELL only when omitted.      *)
C7_MacroNameFromCommandLine ==
    (entry = "main" /\ pc = "done") =>
      /\ lef.macro = args_macro_name
      /\ lef.foreign = args_macro_name
      /\ lef.endname = args_macro_name

----------------------------------------------------------------------------
(* C8: once Pass B is complete, every via rectangle emitted at ordinal m   *)
(* in a pixel is covered by a fill rectangle of that pixel on metal m and  *)
(* by one on metal m+1.                                                    *)
CoveredOn(v, spec) ==
    \E i \in DOMAIN cell :
       /\ cell[i].role = "fill" /\ OnLayer(cell[i], spec)
       /\ cell[i].px = v.px /\ cell[i].py = v.py
       /\ Within(v, cell[i].x0, cell[i].y0, cell[i].x1, cell[i].y1)

C8_ViaConnectsTwoMetals ==
    PassBDone =>
      \A i \in DOMAIN cell :
         cell[i].role = "via" =>
           /\ CoveredOn(cell[i], metal_layers[cell[i].ord])
           /\ cell[i].ord + 1 \in DOMAIN metal_layers
           /\ CoveredOn(cell[i], metal_layers[cell[i].ord + 1])

----------------------------------------------------------------------------
(* C9: every rectangle of the collection has strictly positive width and   *)
(* height.                                                                 *)
C9_NoDegenerateRectangle ==
    \A i \in DOMAIN cell :
       cell[i].x1 > cell[i].x0 /\ cell[i].y1 > cell[i].y0

----------------------------------------------------------------------------
(* C10: every rectangle of the collection lies within the logo outline     *)
(* (0,0)-(W*ps, H*ps), and every via rectangle within the box of the pixel *)
(* it was generated for.                                                   *)
C10_GeometryInsideOutline ==
    \A i \in DOMAIN cell :
       /\ Within(cell[i], 0, 0, width * pixel_size_um, height * pixel_size_um)
       /\ cell[i].role = "via" => InPixelBox(cell[i], cell[i].px, cell[i].py)

(* a finished collection holding a diagonal square of positive side, the   *)
(* outline, an exclusion rectangle and a via whose right edge lies on the  *)
(* right edge of its pixel box                                             *)
C10_Witness ==
    /\ pc = "done" /\ entry = "gds"
    /\ \E i \in DOMAIN cell : cell[i].role = "diag" /\ cell[i].x1 > cell[i].x0
    /\ \E i \in DOMAIN cell : cell[i].role = "excl"
    /\ \E i \in DOMAIN cell : cell[i].role = "outline"
    /\ \E i \in DOMAIN cell :
          /\ cell[i].role = "via" /\ cell[i].x1 > cell[i].x0
          /\ cell[i].x1 = (cell[i].px + 1) * pixel_size_um

====
